---- MODULE Spec2Model ----
(***************************************************************************)
(* Model of the sui-flash-loan-dapp repository.                            *)
(*                                                                         *)
(* Part 1: the on-ledger pool, contracts/sources/flash_loan.move.  Every   *)
(* entry function is one ledger transaction: it either runs to the end and *)
(* its effects are committed, or it aborts with an error code and nothing  *)
(* changes.  The states of the model are the committed ledger states.      *)
(*                                                                         *)
(* Amounts stay far below 2^64, so the u64 arithmetic aborts of Move are   *)
(* not reached; timestamps and event objects, which no operation reads,   *)
(* are left out.                                                           *)
(*                                                                         *)
(* Part 2: the off-ledger executor, backend/src/services/suiService.ts.    *)
(* A call of executeWithFailover advances at its await points; the steps   *)
(* between two awaits are atomic, as on the single JavaScript thread.      *)
(* estimateGasCost runs its dry run through the same executor.             *)
(*                                                                         *)
(* Part 3: the HTTP surface, index.ts, middleware/rateLimiter.ts and the   *)
(* flash-loan router.  A request passes its limiters one by one and then   *)
(* its handler.  The two express-rate-limit limiters count and set the     *)
(* expiry of their key in one step of the store; walletRateLimiter counts  *)
(* with incr and sets the expiry with a second command.                    *)
(***************************************************************************)
EXTENDS Integers, Sequences, FiniteSets, TLC

(* ------------------------------------------------------------------ *)
(* Error codes of flash_loan.move (kept by name) and abort outcomes    *)
(* ------------------------------------------------------------------ *)
E_POOL_PAUSED == "E_POOL_PAUSED"
E_INSUFFICIENT_BALANCE == "E_INSUFFICIENT_BALANCE"
E_INVALID_AMOUNT == "E_INVALID_AMOUNT"
E_UNAUTHORIZED == "E_UNAUTHORIZED"
E_LOAN_NOT_FOUND == "E_LOAN_NOT_FOUND"
E_LOAN_ALREADY_REPAID == "E_LOAN_ALREADY_REPAID"
E_INSUFFICIENT_REPAYMENT == "E_INSUFFICIENT_REPAYMENT"
E_FEE_RATE_TOO_HIGH == "E_FEE_RATE_TOO_HIGH"
\* abort raised inside sui::balance::split when the balance is too small
ENotEnough == "sui::balance::ENotEnough"
\* the transaction ran to its end and was committed
OK == "OK"

(* ------------------------------------------------------------------ *)
(* Inputs                                                              *)
(* ------------------------------------------------------------------ *)
ADMIN == "0x42"
BORROWER == "0x43"
Addresses == {ADMIN, BORROWER}
Borrowers == {BORROWER}

\* the two shared pool objects of the model
PoolIds == {"poolA", "poolB"}
\* the pool of the runs with a single pool
FirstPool == {"poolA"}

\* greatest number of loans issued in a run, all pools together
MaxLoans == 2

MAX_FEE_RATE == 500
BPS_DENOMINATOR == 10000

InitialDeposits == {50}
FeeRates == {0, 500, 600}
\* the fee rates of the runs with two pools
TwoPoolFeeRates == {500, 600}
MaxLoanAmounts == {50, 60}
\* the loan maximum of the runs with two pools
TwoPoolMaxLoanAmounts == {50}
LoanAmounts == {0, 50, 52}
WithdrawAmounts == {1, 2}
\* a repayment coin is the required amount, one unit short, or one unit over
RepaymentDeltas == {-1, 0, 1}

\* the figures of flash_loan_tests.move
TestDeposits == {1000000000}
TestFeeRates == {50}
TestMaxLoanAmounts == {500000000}
TestLoanAmounts == {100000000}
\* the repayment coin of the lifecycle test, and the loan with 0.5% on top
TestRepayments == {100050000, 100500000}
TestWithdrawAmounts == {500000, 500001}

\* pool fee rates around the rate written in the router
QuoteFeeRates == {0, 5, 50, 500}
\* the request of the runs with one request
FirstRequest == {"c1"}

NoLoan == 0 - 1

VARIABLES
    pools,      \* pool id -> FlashLoanPool, for the pools created so far
    caps,       \* the FlashLoanCapability objects in existence
    settled,    \* history: <<pool, loan id>> -> number of successful repayments
    snap,       \* history: pool -> state before its latest issuance, while nothing else happened
    last,       \* history: the latest transaction and its outcome
    calls,              \* call id -> the state of one executeWithFailover call
    currentRpcIndex,    \* module variable currentRpcIndex
    suiClient,          \* index of the endpoint the shared suiClient talks to
    reachable,          \* environment: the endpoints that answer at the moment
    estimates,  \* call id -> the state of one estimateGasCost call
    reqs,       \* request id -> the state of one HTTP request
    hits,       \* <<limiter prefix, key>> -> the counter in the rate-limit store
    expiry,     \* the keys of the store that carry an expiry
    admitted    \* history: key -> requests its limiter let through in the key's window

poolVars == <<pools, caps, settled, snap, last>>
execVars == <<calls, currentRpcIndex, suiClient, reachable>>
storeVars == <<hits, expiry, admitted>>
apiVars == <<estimates, reqs, hits, expiry, admitted>>
vars == <<pools, caps, settled, snap, last,
          calls, currentRpcIndex, suiClient, reachable,
          estimates, reqs, hits, expiry, admitted>>

NoSnap == [loan_id |-> NoLoan, balance |-> 0, fees |-> 0]
NoCall == [op |-> "none", pool |-> "none", sender |-> "none", amount |-> 0,
           loan_id |-> NoLoan, origin |-> "none", err |-> OK]

Call(op, p, sender, amount, loan_id, origin, err) ==
    [op |-> op, pool |-> p, sender |-> sender, amount |-> amount,
     loan_id |-> loan_id, origin |-> origin, err |-> err]

Created == DOMAIN pools

RECURSIVE SumIssued(_)
SumIssued(ps) ==
    IF ps = {} THEN 0
    ELSE LET q == CHOOSE x \in ps : TRUE
         IN  pools[q].total_loans_issued + SumIssued(ps \ {q})

\* loans issued so far, all pools together
LoansIssued == SumIssued(Created)

(* ------------------------------------------------------------------ *)
(* Pure helpers of flash_loan.move                                     *)
(* ------------------------------------------------------------------ *)
\* (a * b) / d in u64: the product is taken in two parts, of the multiples of
\* d in a and of the rest, so that amounts of 10^8 and more can be checked;
\* floor((q * d + r) * b / d) = q * b + floor(r * b / d)
MulDiv(a, b, d) == (a \div d) * b + ((a % d) * b) \div d

\* calculate_flash_loan_cost: (fee_amount, total_repayment)
calculate_flash_loan_cost(pool, amount) ==
    LET fee_amount == MulDiv(amount, pool.fee_rate, BPS_DENOMINATOR)
    IN  <<fee_amount, amount + fee_amount>>

\* get_active_loans_count: the length of the receipt vector
get_active_loans_count(pool) == Len(pool.active_loans)

\* has_sufficient_liquidity
has_sufficient_liquidity(pool, amount) == pool.balance >= amount

\* index of the first receipt with this loan id, 0 when there is none
FindReceipt(receipts, loan_id) ==
    IF \E i \in 1..Len(receipts) : receipts[i].loan_id = loan_id
    THEN CHOOSE i \in 1..Len(receipts) :
            /\ receipts[i].loan_id = loan_id
            /\ \A j \in 1..(i - 1) : receipts[j].loan_id # loan_id
    ELSE 0

\* vector::remove
RemoveAt(s, i) == [j \in 1..(Len(s) - 1) |-> IF j < i THEN s[j] ELSE s[j + 1]]

(* ------------------------------------------------------------------ *)
(* create_pool                                                         *)
(* ------------------------------------------------------------------ *)
\* CreateErr without the fee-rate ceiling
CreateErr_NoCeiling(fee_rate) == OK

CreateErr(fee_rate) ==
    IF ~(fee_rate <= MAX_FEE_RATE) THEN E_FEE_RATE_TOO_HIGH ELSE OK

NewPool(owner, deposit, fee_rate, max_loan_amount) ==
    [owner |-> owner,
     balance |-> deposit,
     fee_rate |-> fee_rate,
     is_paused |-> FALSE,
     total_loans_issued |-> 0,
     total_fees_collected |-> 0,
     pool_version |-> 1,
     max_loan_amount |-> max_loan_amount,
     active_loans |-> <<>>]

create_pool(p, sender, deposit, fee_rate, max_loan_amount) ==
    LET err == CreateErr(fee_rate) IN
    /\ p \notin Created
    /\ IF err = OK
       THEN pools' = [q \in Created \cup {p} |->
                        IF q = p THEN NewPool(sender, deposit, fee_rate, max_loan_amount)
                        ELSE pools[q]]
       ELSE pools' = pools
    /\ last' = Call("create_pool", p, sender, fee_rate, NoLoan, "none", err)
    /\ UNCHANGED <<caps, settled, snap, execVars, apiVars>>

(* ------------------------------------------------------------------ *)
(* request_flash_loan (through request_flash_loan_entry)               *)
(* ------------------------------------------------------------------ *)
\* RequestErr without the liquidity check
RequestErr_NoBalanceCheck(pool, amount) ==
    IF pool.is_paused THEN E_POOL_PAUSED
    ELSE IF ~(amount > 0) THEN E_INVALID_AMOUNT
    ELSE IF ~(amount <= pool.max_loan_amount) THEN E_INVALID_AMOUNT
    ELSE OK

\* RequestErr with the amount checks ahead of the pause check
RequestErr_AmountFirst(pool, amount) ==
    IF ~(amount > 0) THEN E_INVALID_AMOUNT
    ELSE IF ~(amount <= pool.max_loan_amount) THEN E_INVALID_AMOUNT
    ELSE IF pool.is_paused THEN E_POOL_PAUSED
    ELSE IF ~(pool.balance >= amount) THEN E_INSUFFICIENT_BALANCE
    ELSE OK

RequestErr(pool, amount) ==
    IF pool.is_paused THEN E_POOL_PAUSED
    ELSE IF ~(amount > 0) THEN E_INVALID_AMOUNT
    ELSE IF ~(amount <= pool.max_loan_amount) THEN E_INVALID_AMOUNT
    ELSE IF ~(pool.balance >= amount) THEN E_INSUFFICIENT_BALANCE
    ELSE OK

\* NewReceipt with the fee rounded up
NewReceipt_CeilFee(pool, amount, sender) ==
    [loan_id |-> pool.total_loans_issued,
     borrower |-> sender,
     amount_borrowed |-> amount,
     fee_amount |-> (amount * pool.fee_rate + BPS_DENOMINATOR - 1) \div BPS_DENOMINATOR,
     is_repaid |-> FALSE]

NewReceipt(pool, amount, sender) ==
    [loan_id |-> pool.total_loans_issued,
     borrower |-> sender,
     amount_borrowed |-> amount,
     fee_amount |-> MulDiv(amount, pool.fee_rate, BPS_DENOMINATOR),
     is_repaid |-> FALSE]

\* the capability records the transaction sender in pool_id; origin is the
\* pool that minted it, which the object itself does not record
NewCapability(p, pool, sender) ==
    [pool_id |-> sender, loan_id |-> pool.total_loans_issued, origin |-> p]

PoolAfterRequest(pool, amount, sender) ==
    [pool EXCEPT !.balance = @ - amount,
                 !.total_loans_issued = @ + 1,
                 !.active_loans = Append(@, NewReceipt(pool, amount, sender))]

request_flash_loan(p, sender, amount) ==
    LET pool == pools[p]
        err == RequestErr(pool, amount)
    IN
    /\ p \in Created
    /\ LoansIssued < MaxLoans
    /\ IF err = OK
       THEN /\ pools' = [pools EXCEPT ![p] = PoolAfterRequest(pool, amount, sender)]
            /\ caps' = caps \cup {NewCapability(p, pool, sender)}
            /\ snap' = [snap EXCEPT ![p] = [loan_id |-> pool.total_loans_issued,
                                            balance |-> pool.balance,
                                            fees |-> pool.total_fees_collected]]
       ELSE UNCHANGED <<pools, caps, snap>>
    /\ last' = Call("request_flash_loan", p, sender, amount,
                    IF err = OK THEN pool.total_loans_issued ELSE NoLoan, p, err)
    /\ UNCHANGED <<settled, execVars, apiVars>>

(* ------------------------------------------------------------------ *)
(* repay_flash_loan (through repay_flash_loan_entry)                   *)
(* ------------------------------------------------------------------ *)
RequiredRepayment(receipt) == receipt.amount_borrowed + receipt.fee_amount

\* RepayErr without the is_repaid check
RepayErr_NoRepaidCheck(pool, loan_id, repayment) ==
    LET i == FindReceipt(pool.active_loans, loan_id) IN
    IF i = 0 THEN E_LOAN_NOT_FOUND
    ELSE IF ~(repayment >= RequiredRepayment(pool.active_loans[i]))
         THEN E_INSUFFICIENT_REPAYMENT
    ELSE OK

\* RepayErr with the repayment compared with the principal alone
RepayErr_PrincipalOnly(pool, loan_id, repayment) ==
    LET i == FindReceipt(pool.active_loans, loan_id) IN
    IF i = 0 THEN E_LOAN_NOT_FOUND
    ELSE IF ~(pool.active_loans[i].is_repaid = FALSE) THEN E_LOAN_ALREADY_REPAID
    ELSE IF ~(repayment >= pool.active_loans[i].amount_borrowed)
         THEN E_INSUFFICIENT_REPAYMENT
    ELSE OK

RepayErr(pool, loan_id, repayment) ==
    LET i == FindReceipt(pool.active_loans, loan_id) IN
    IF i = 0 THEN E_LOAN_NOT_FOUND
    ELSE IF ~(pool.active_loans[i].is_repaid = FALSE) THEN E_LOAN_ALREADY_REPAID
    ELSE IF ~(repayment >= RequiredRepayment(pool.active_loans[i]))
         THEN E_INSUFFICIENT_REPAYMENT
    ELSE OK

\* the receipt is taken out of the vector, marked repaid and pushed back
PoolAfterRepay(pool, loan_id, repayment) ==
    LET i == FindReceipt(pool.active_loans, loan_id)
        receipt == pool.active_loans[i]
    IN  [pool EXCEPT !.balance = @ + repayment,
                     !.total_fees_collected = @ + receipt.fee_amount,
                     !.active_loans = Append(RemoveAt(pool.active_loans, i),
                                             [receipt EXCEPT !.is_repaid = TRUE])]

\* the repayment coins a borrower may bring for this loan id
RepaymentsFor(pool, loan_id) ==
    LET i == FindReceipt(pool.active_loans, loan_id) IN
    IF i = 0 THEN {1}
    ELSE {RequiredRepayment(pool.active_loans[i]) + d : d \in RepaymentDeltas} \cap Nat

\* the capability is an owned object: the sender is its holder, and the
\* capability is destroyed only when the transaction commits
repay_flash_loan(p, cap, repayment) ==
    LET pool == pools[p]
        err == RepayErr(pool, cap.loan_id, repayment)
    IN
    /\ p \in Created
    /\ cap \in caps
    /\ IF err = OK
       THEN /\ pools' = [pools EXCEPT ![p] = PoolAfterRepay(pool, cap.loan_id, repayment)]
            /\ caps' = caps \ {cap}
            /\ settled' = [settled EXCEPT ![<<p, cap.loan_id>>] = @ + 1]
            /\ snap' = [snap EXCEPT ![p] = IF @.loan_id = cap.loan_id THEN @ ELSE NoSnap]
       ELSE UNCHANGED <<pools, caps, settled, snap>>
    /\ last' = Call("repay_flash_loan", p, cap.pool_id, repayment, cap.loan_id, cap.origin, err)
    /\ UNCHANGED <<execVars, apiVars>>

\* any holder of a capability calls repay_flash_loan_entry on pool p with a
\* coin of the given value
repay_flash_loan_with(p, repayment) ==
    /\ p \in Created
    /\ \E cap \in caps : repay_flash_loan(p, cap, repayment)

\* the borrower repays with a coin of the total the estimate endpoint quoted
\* in its answer to request r
repay_flash_loan_quoted(p, r) ==
    /\ reqs[r].route = "estimate"
    /\ reqs[r].pc = "responded"
    /\ reqs[r].success
    /\ repay_flash_loan_with(p, reqs[r].totalRepayment)

\* any holder of a capability calls repay_flash_loan_entry on pool p
repay_flash_loan_entry(p) ==
    /\ p \in Created
    /\ \E cap \in caps : \E x \in RepaymentsFor(pools[p], cap.loan_id) :
          repay_flash_loan(p, cap, x)

(* ------------------------------------------------------------------ *)
(* owner operations                                                    *)
(* ------------------------------------------------------------------ *)
\* OwnerErr without the sender check
OwnerErr_AnyCaller(pool, sender) == OK

OwnerErr(pool, sender) ==
    IF ~(sender = pool.owner) THEN E_UNAUTHORIZED ELSE OK

pause_pool(p, sender) ==
    LET pool == pools[p]
        err == OwnerErr(pool, sender)
    IN
    /\ p \in Created
    /\ IF err = OK
       THEN /\ pools' = [pools EXCEPT ![p].is_paused = TRUE]
            /\ snap' = [snap EXCEPT ![p] = NoSnap]
       ELSE UNCHANGED <<pools, snap>>
    /\ last' = Call("pause_pool", p, sender, 0, NoLoan, "none", err)
    /\ UNCHANGED <<caps, settled, execVars, apiVars>>

resume_pool(p, sender) ==
    LET pool == pools[p]
        err == OwnerErr(pool, sender)
    IN
    /\ p \in Created
    /\ IF err = OK
       THEN /\ pools' = [pools EXCEPT ![p].is_paused = FALSE]
            /\ snap' = [snap EXCEPT ![p] = NoSnap]
       ELSE UNCHANGED <<pools, snap>>
    /\ last' = Call("resume_pool", p, sender, 0, NoLoan, "none", err)
    /\ UNCHANGED <<caps, settled, execVars, apiVars>>

UpdateErr(pool, sender, new_fee_rate) ==
    IF ~(sender = pool.owner) THEN E_UNAUTHORIZED
    ELSE IF ~(new_fee_rate <= MAX_FEE_RATE) THEN E_FEE_RATE_TOO_HIGH
    ELSE OK

update_pool_params(p, sender, new_fee_rate, new_max_loan_amount) ==
    LET pool == pools[p]
        err == UpdateErr(pool, sender, new_fee_rate)
    IN
    /\ p \in Created
    /\ IF err = OK
       THEN /\ pools' = [pools EXCEPT ![p].fee_rate = new_fee_rate,
                                      ![p].max_loan_amount = new_max_loan_amount]
            /\ snap' = [snap EXCEPT ![p] = NoSnap]
       ELSE UNCHANGED <<pools, snap>>
    /\ last' = Call("update_pool_params", p, sender, new_fee_rate, NoLoan, "none", err)
    /\ UNCHANGED <<caps, settled, execVars, apiVars>>

\* coin::from_balance splits the amount off the balance and aborts when the
\* balance is smaller than the amount
\* WithdrawErr with a strict comparison against the collected fees
WithdrawErr_StrictLess(pool, sender, amount) ==
    IF ~(sender = pool.owner) THEN E_UNAUTHORIZED
    ELSE IF ~(amount < pool.total_fees_collected) THEN E_INSUFFICIENT_BALANCE
    ELSE IF ~(pool.balance >= amount) THEN ENotEnough
    ELSE OK

WithdrawErr(pool, sender, amount) ==
    IF ~(sender = pool.owner) THEN E_UNAUTHORIZED
    ELSE IF ~(amount <= pool.total_fees_collected) THEN E_INSUFFICIENT_BALANCE
    ELSE IF ~(pool.balance >= amount) THEN ENotEnough
    ELSE OK

withdraw_fees(p, sender, amount) ==
    LET pool == pools[p]
        err == WithdrawErr(pool, sender, amount)
    IN
    /\ p \in Created
    /\ IF err = OK
       THEN /\ pools' = [pools EXCEPT ![p].total_fees_collected = @ - amount,
                                      ![p].balance = @ - amount]
            /\ snap' = [snap EXCEPT ![p] = NoSnap]
       ELSE UNCHANGED <<pools, snap>>
    /\ last' = Call("withdraw_fees", p, sender, amount, NoLoan, "none", err)
    /\ UNCHANGED <<caps, settled, execVars, apiVars>>

(* ================================================================== *)
(* Part 2: backend/src/services/suiService.ts                          *)
(* ================================================================== *)
\* RPC_CONFIG.endpoints has three entries
NumEndpoints == 3
Endpoints == 0..(NumEndpoints - 1)

\* RETRY_CONFIG.maxAttempts
DefaultMaxAttempts == 3

\* greatest options.maxAttempts a caller passes
MaxAttemptsInput == 3

\* the concurrent logical calls of the model
CallIds == {"c1", "c2"}

\* a property that was not supplied; every comparison with it is false
UNDEFINED == 0 - 1

\* attempt <= maxAttempts and attempt >= maxAttempts as JavaScript evaluates them
LeqJS(a, b) == b # UNDEFINED /\ a <= b
GeqJS(a, b) == b # UNDEFINED /\ a >= b

\* { ...RETRY_CONFIG, ...options }.maxAttempts: an own property of options
\* wins even when its value is undefined
MergedMaxAttempts(hasKey, value) == IF hasKey THEN value ELSE DefaultMaxAttempts

\* what executeWithFailover can throw or keep in lastError
ErrNetwork == "network"
ErrValidation == "VALIDATION_ERROR"
ErrOther == "other"
ErrUndefined == "undefined"
ErrAllEndpointsFailed == "All RPC endpoints failed"

isNetworkError(e) == e = ErrNetwork

\* requested, networkFailures and probed are history: the maxAttempts the
\* caller passed, how many invocations ended in a network-class failure,
\* and the endpoints the running switchToNextRpcEndpoint probed in vain
IdleCall ==
    [pc |-> "idle", kind |-> "none", maxAttempts |-> UNDEFINED, attempt |-> 0,
     lastError |-> ErrUndefined, invocations |-> 0, commits |-> 0,
     opClient |-> 0, probeEndpoint |-> 0, switchAttempts |-> 0,
     result |-> "none", requested |-> UNDEFINED, networkFailures |-> 0,
     probed |-> {}]

\* top of the for loop: invoke the operation with the current suiClient, or
\* leave the loop and throw lastError
LoopTop(call, attempt) ==
    IF LeqJS(attempt, call.maxAttempts)
    THEN [call EXCEPT !.pc = "await_op", !.attempt = attempt,
                      !.invocations = @ + 1, !.opClient = suiClient']
    ELSE [call EXCEPT !.pc = "threw", !.attempt = attempt, !.result = call.lastError]

\* top of the while loop of switchToNextRpcEndpoint: read the endpoint at
\* currentRpcIndex and start probing it
SwitchTop(call) ==
    [call EXCEPT !.pc = "await_probe", !.probeEndpoint = currentRpcIndex']

\* executeTransaction(tx, sender, options): options.maxAttempts is passed on
\* as an own property, supplied or not
StartExecuteTransaction(c, m) ==
    /\ calls[c].pc = "idle"
    /\ UNCHANGED <<currentRpcIndex, suiClient, reachable, poolVars, apiVars>>
    /\ calls' = [calls EXCEPT ![c] =
                    LoopTop([IdleCall EXCEPT !.kind = "executeTransaction",
                                             !.requested = m,
                                             !.maxAttempts = MergedMaxAttempts(TRUE, m)], 1)]

\* a read through executeWithFailover(operation) with no options
StartRead(c) ==
    /\ calls[c].pc = "idle"
    /\ UNCHANGED <<currentRpcIndex, suiClient, reachable, poolVars, apiVars>>
    /\ calls' = [calls EXCEPT ![c] =
                    LoopTop([IdleCall EXCEPT !.kind = "read",
                                             !.maxAttempts = MergedMaxAttempts(FALSE, UNDEFINED)], 1)]

\* the outcomes the awaited operation can have now: an endpoint that does
\* not answer gives a network-class failure; a submit that fails with one
\* may have been committed by the ledger before the response was lost
OpOutcomes(call) ==
    IF call.opClient \notin reachable THEN {"network"}
    ELSE {"success", "network", "validation", "other"}
         \cup (IF call.kind = "executeTransaction" THEN {"network_after_commit"} ELSE {})

OutcomeError(o) ==
    IF o \in {"network", "network_after_commit"} THEN ErrNetwork
    ELSE IF o = "validation" THEN ErrValidation
    ELSE ErrOther

\* the catch block of executeWithFailover
AfterFailure(call, e) ==
    LET failed == [call EXCEPT !.lastError = e] IN
    IF isNetworkError(e) /\ call.attempt < NumEndpoints
    THEN SwitchTop([failed EXCEPT !.switchAttempts = 0, !.probed = {}])
    ELSE IF e = ErrValidation \/ GeqJS(call.attempt, call.maxAttempts)
    THEN [failed EXCEPT !.pc = "threw", !.result = e]
    ELSE [failed EXCEPT !.pc = "backoff"]

\* the awaited operation settles
OpSettles(c, o) ==
    LET call == calls[c]
        committed == IF call.kind = "executeTransaction"
                        /\ o \in {"success", "network_after_commit"}
                     THEN 1 ELSE 0
        counted == [call EXCEPT !.commits = @ + committed,
                                !.networkFailures =
                                    IF o # "success" /\ isNetworkError(OutcomeError(o))
                                    THEN @ + 1 ELSE @]
    IN
    /\ call.pc = "await_op"
    /\ o \in OpOutcomes(call)
    /\ UNCHANGED <<currentRpcIndex, suiClient, reachable, poolVars, apiVars>>
    /\ calls' = [calls EXCEPT ![c] =
                    IF o = "success"
                    THEN [counted EXCEPT !.pc = "returned", !.result = "success"]
                    ELSE AfterFailure(counted, OutcomeError(o))]

\* the probe of switchToNextRpcEndpoint answers: the client of the probed
\* endpoint becomes the shared client and the call goes on with its next
\* attempt (RPC_CONFIG.currentEndpointIndex, written here, is read nowhere)
ProbeSucceeds(c) ==
    LET call == calls[c] IN
    /\ call.pc = "await_probe"
    /\ call.probeEndpoint \in reachable
    /\ suiClient' = call.probeEndpoint
    /\ UNCHANGED <<currentRpcIndex, reachable, poolVars, apiVars>>
    /\ calls' = [calls EXCEPT ![c] = LoopTop(call, call.attempt + 1)]

\* the probe fails: the shared index moves on; after as many failures as
\* there are endpoints the call throws, else it sleeps before the next probe
ProbeFails(c) ==
    LET call == calls[c]
        attempts == call.switchAttempts + 1
    IN
    /\ call.pc = "await_probe"
    /\ call.probeEndpoint \notin reachable
    /\ currentRpcIndex' = (currentRpcIndex + 1) % NumEndpoints
    /\ UNCHANGED <<suiClient, reachable, poolVars, apiVars>>
    /\ calls' = [calls EXCEPT ![c] =
                    IF attempts >= NumEndpoints
                    THEN [call EXCEPT !.pc = "threw", !.switchAttempts = attempts,
                                      !.probed = @ \cup {call.probeEndpoint},
                                      !.result = ErrAllEndpointsFailed]
                    ELSE [call EXCEPT !.pc = "switch_sleep", !.switchAttempts = attempts,
                                      !.probed = @ \cup {call.probeEndpoint}]]

\* the one-second wait between two probes ends
SwitchSleepEnds(c) ==
    /\ calls[c].pc = "switch_sleep"
    /\ UNCHANGED <<currentRpcIndex, suiClient, reachable, poolVars, apiVars>>
    /\ calls' = [calls EXCEPT ![c] = SwitchTop(calls[c])]

\* the backoff sleep ends and the loop goes to its next attempt
BackoffEnds(c) ==
    /\ calls[c].pc = "backoff"
    /\ UNCHANGED <<currentRpcIndex, suiClient, reachable, poolVars, apiVars>>
    /\ calls' = [calls EXCEPT ![c] = LoopTop(calls[c], calls[c].attempt + 1)]

\* environment: an endpoint stops or starts answering
EndpointFlips(e) ==
    /\ reachable' = IF e \in reachable THEN reachable \ {e} ELSE reachable \cup {e}
    /\ UNCHANGED <<calls, currentRpcIndex, suiClient, poolVars, apiVars>>

\* environment: an endpoint stops answering for good, one at least stays up
EndpointGoesDown(e) ==
    /\ e \in reachable
    /\ Cardinality(reachable) > 1
    /\ reachable' = reachable \ {e}
    /\ UNCHANGED <<calls, currentRpcIndex, suiClient, poolVars, apiVars>>

\* what executeTransaction hands to its caller once executeWithFailover is
\* over: the catch block reads error.message, which throws for undefined
ExecuteTransactionResult(call) ==
    IF call.pc = "returned" THEN "success"
    ELSE IF call.result = ErrUndefined THEN "TypeError"
    ELSE "failed"

(* ------------------------------------------------------------------ *)
(* estimateGasCost                                                     *)
(* ------------------------------------------------------------------ *)
\* parseInt(process.env.MAX_GAS_BUDGET || '1000000')
MAX_GAS_BUDGET == 1000000

\* the error property of an estimate that has none
NoErrorText == "undefined"
WouldFailText == "Transaction would fail during execution"
ExceedsText == "Gas cost exceeds maximum allowed"
EstimationFailedText == "Gas estimation failed"

\* what a dry run can report: the status and the three gasUsed numbers
DryRunStatuses == {"success", "failure"}
ComputationCosts == {0, 833333}
StorageCosts == {0, 1, 1000}
StorageRebates == {0, 3}

\* GasWithBuffer with the product rounded down
GasWithBuffer_Floor(totalGas) == (6 * totalGas) \div 5

\* Math.ceil(totalGas * 1.2) for an integer totalGas: the double nearest to
\* 1.2 is below 1.2 by less than 2^-54 of it, so the double product is the
\* integer 6 * totalGas / 5 when totalGas is a multiple of 5 and lies strictly
\* between the two neighbouring integers otherwise (|totalGas| < 2^50)
GasWithBuffer(totalGas) == 0 - ((0 - 6 * totalGas) \div 5)

IdleEstimate ==
    [pc |-> "idle", simulated |-> "none", gasEstimate |-> 0, isValid |-> FALSE,
     computationCost |-> 0, storageCost |-> 0, storageRebate |-> 0,
     error |-> NoErrorText]

\* the value returned after the dry run came back (lines 188-225)
EstimateOf(status, computationCost, storageCost, storageRebate) ==
    IF status # "success"
    THEN [IdleEstimate EXCEPT !.pc = "done", !.simulated = status,
                              !.error = WouldFailText]
    ELSE LET totalGas == computationCost + storageCost - storageRebate
             gasWithBuffer == GasWithBuffer(totalGas)
             isValid == gasWithBuffer <= MAX_GAS_BUDGET
         IN  [pc |-> "done", simulated |-> status, gasEstimate |-> gasWithBuffer,
              isValid |-> isValid,
              computationCost |-> computationCost, storageCost |-> storageCost,
              storageRebate |-> storageRebate,
              error |-> IF isValid THEN NoErrorText ELSE ExceedsText]

\* the value returned by the catch block (lines 227-238)
EstimateFailed ==
    [IdleEstimate EXCEPT !.pc = "done", !.error = EstimationFailedText]

\* estimateGasCost up to its second await: transactionBlock.build either
\* throws into the catch block or the dry run starts through
\* executeWithFailover with no options
EstimateCall(c, buildOk) ==
    /\ estimates[c].pc = "idle"
    /\ calls[c].pc = "idle"
    /\ UNCHANGED <<currentRpcIndex, suiClient, reachable>>
    /\ IF buildOk
       THEN /\ estimates' = [estimates EXCEPT ![c].pc = "await_dry_run"]
            /\ calls' = [calls EXCEPT ![c] =
                            LoopTop([IdleCall EXCEPT !.kind = "dryRun",
                                                     !.maxAttempts =
                                                        MergedMaxAttempts(FALSE, UNDEFINED)], 1)]
       ELSE /\ estimates' = [estimates EXCEPT ![c] = EstimateFailed]
            /\ calls' = calls

estimateGasCost(c, buildOk) ==
    /\ EstimateCall(c, buildOk)
    /\ UNCHANGED <<reqs, storeVars, poolVars>>

\* executeWithFailover returned the dry-run result
DryRunReturns(c, status, computationCost, storageCost, storageRebate) ==
    /\ estimates[c].pc = "await_dry_run"
    /\ calls[c].pc = "returned"
    /\ estimates' = [estimates EXCEPT ![c] =
                        EstimateOf(status, computationCost, storageCost, storageRebate)]
    /\ UNCHANGED <<reqs, storeVars, execVars, poolVars>>

\* executeWithFailover threw: the catch block answers
DryRunThrows(c) ==
    /\ estimates[c].pc = "await_dry_run"
    /\ calls[c].pc = "threw"
    /\ estimates' = [estimates EXCEPT ![c] = EstimateFailed]
    /\ UNCHANGED <<reqs, storeVars, execVars, poolVars>>

(* ================================================================== *)
(* Part 3: the HTTP surface, index.ts, middleware/rateLimiter.ts and   *)
(* the flash-loan router                                               *)
(* ================================================================== *)
GLOBAL_MAX == 100
FLASH_LOAN_MAX == 10
WALLET_MAX == 5

\* the key prefixes of the three limiters in the store
GlobalPrefix == "rl:global:"
FlashLoanPrefix == "rl:flashloan:"
WalletPrefix == "rl:wallet:"

Origins == {"ip1", "ip2"}
\* the origin of the runs with one origin
FirstOrigin == {"ip1"}
Wallets == {BORROWER}
HitKeys == ({GlobalPrefix, FlashLoanPrefix} \X Origins) \cup ({WalletPrefix} \X Wallets)

LimitOf(prefix) ==
    IF prefix = GlobalPrefix THEN GLOBAL_MAX
    ELSE IF prefix = FlashLoanPrefix THEN FLASH_LOAN_MAX
    ELSE WALLET_MAX

Routes == {"estimate", "execute"}
\* a body that passes the schema, one that fails it with borrowerAddress
\* present, one without borrowerAddress
Bodies == {"valid", "invalid", "no_wallet"}
RequestAmounts == {2000}
\* the bodies and the operation of the runs at the limiters
GateBodies == {"valid", "no_wallet"}
GateSims == {<<"success", 1000, 0, 0>>}

\* what a dry run of the request's operation reports: a cheap operation, one
\* whose cost with margin is above the ceiling, one whose simulation fails
OperationSims == {<<"success", 1000, 0, 0>>, <<"success", 833333, 1, 0>>,
                  <<"failure", 0, 0, 0>>}

\* the operation would be declared viable by the estimator
Viable(sim) == EstimateOf(sim[1], sim[2], sim[3], sim[4]).isValid

\* the fee rate written in the router
ROUTER_FEE_RATE == 5

\* history fields: globalIncrements, flashCount and walletCount are what the
\* limiters counted for this request, securityEvent the logSecurityEvent of
\* a limiter, audited the insertAuditLog of the router
NoRequest ==
    [pc |-> "none", route |-> "none", ip |-> "none", body |-> "none",
     amount |-> 0, sim |-> <<"none", 0, 0, 0>>,
     admittedBy |-> {}, rejectedBy |-> "none",
     globalIncrements |-> 0, flashCount |-> 0, walletCount |-> 0,
     estimatorCalls |-> 0, submitCalls |-> 0, txStatus |-> "none",
     feeAmount |-> 0, totalRepayment |-> 0,
     audited |-> FALSE, securityEvent |-> FALSE,
     status |-> 0, success |-> FALSE, code |-> "none"]

Respond(req, status, success, code) ==
    [req EXCEPT !.pc = "responded", !.status = status, !.success = success,
                !.code = code]

\* the 429 handler of a limiter: logSecurityEvent, then the response
Reject(req, prefix) ==
    [Respond(req, 429, FALSE, "RATE_LIMIT_EXCEEDED")
        EXCEPT !.rejectedBy = prefix, !.securityEvent = TRUE]

\* a request arrives; app.use(rateLimitMiddleware) is its first limiter
ReceiveRequest(r, route, ip, body, amount, sim) ==
    /\ reqs[r].pc = "none"
    /\ reqs' = [reqs EXCEPT ![r] =
                   [NoRequest EXCEPT !.pc = "app_global", !.route = route, !.ip = ip,
                                     !.body = body, !.amount = amount, !.sim = sim]]
    /\ UNCHANGED <<estimates, storeVars, execVars, poolVars>>

\* what a request records of the count a limiter took for it
Counted(req, prefix, count) ==
    IF prefix = GlobalPrefix THEN [req EXCEPT !.globalIncrements = @ + 1]
    ELSE IF prefix = FlashLoanPrefix THEN [req EXCEPT !.flashCount = count]
    ELSE [req EXCEPT !.walletCount = count]

\* Limiter with the comparison made on the count before the increment
Limiter_CountBefore(r, prefix, nextPc) ==
    LET key == <<prefix, reqs[r].ip>>
        count == hits[key] + 1
        over == hits[key] > LimitOf(prefix)
    IN
    /\ hits' = [hits EXCEPT ![key] = count]
    /\ expiry' = expiry \cup {key}
    /\ admitted' = IF over THEN admitted ELSE [admitted EXCEPT ![key] = @ + 1]
    /\ reqs' = [reqs EXCEPT ![r] =
                   IF over
                   THEN Reject(Counted(reqs[r], prefix, count), prefix)
                   ELSE [Counted(reqs[r], prefix, count)
                            EXCEPT !.pc = nextPc, !.admittedBy = @ \cup {prefix}]]

\* one express-rate-limit instance keyed by req.ip: the store counts the
\* request and gives the key its expiry in one step, then the limiter
\* answers 429 above the maximum or calls next()
Limiter(r, prefix, nextPc) ==
    LET key == <<prefix, reqs[r].ip>>
        count == hits[key] + 1
        over == count > LimitOf(prefix)
    IN
    /\ hits' = [hits EXCEPT ![key] = count]
    /\ expiry' = expiry \cup {key}
    /\ admitted' = IF over THEN admitted ELSE [admitted EXCEPT ![key] = @ + 1]
    /\ reqs' = [reqs EXCEPT ![r] =
                   IF over
                   THEN Reject(Counted(reqs[r], prefix, count), prefix)
                   ELSE [Counted(reqs[r], prefix, count)
                            EXCEPT !.pc = nextPc, !.admittedBy = @ \cup {prefix}]]

\* globalRateLimiter runs for every request at the application level and
\* again as the first member of flashLoanRateLimitMiddleware on /execute
globalRateLimiter(r) ==
    /\ reqs[r].pc \in {"app_global", "route_global"}
    /\ Limiter(r, GlobalPrefix,
               IF reqs[r].pc = "route_global" THEN "route_flash"
               ELSE IF reqs[r].route = "execute" THEN "route_global"
               ELSE "handler")
    /\ UNCHANGED <<estimates, execVars, poolVars>>

flashLoanRateLimiter(r) ==
    /\ reqs[r].pc = "route_flash"
    /\ Limiter(r, FlashLoanPrefix, "route_wallet")
    /\ UNCHANGED <<estimates, execVars, poolVars>>

\* the key of the wallet limiter for the address in the body
WalletKey == <<WalletPrefix, BORROWER>>

\* walletRateLimiter called next(): the request goes on to the handler
WalletNext(req) ==
    [req EXCEPT !.pc = "handler", !.admittedBy = @ \cup {WalletPrefix}]

\* the decision of walletRateLimiter on the count it was given
WalletDecides(req, count) ==
    IF count > WALLET_MAX THEN Reject(req, WalletPrefix) ELSE WalletNext(req)

\* walletRateLimiter up to the return of incr: without an address in the
\* body next() is called at once; an error of incr goes to the catch block,
\* which calls next(); a count of 1 goes on to the await of expire
walletRateLimiter(r, storeOk) ==
    LET count == hits[WalletKey] + 1 IN
    /\ reqs[r].pc = "route_wallet"
    /\ IF reqs[r].body = "no_wallet"
       THEN /\ reqs' = [reqs EXCEPT ![r].pc = "handler"]
            /\ UNCHANGED <<hits, admitted>>
       ELSE IF ~storeOk
       THEN /\ reqs' = [reqs EXCEPT ![r] = WalletNext(@)]
            /\ admitted' = [admitted EXCEPT ![WalletKey] = @ + 1]
            /\ hits' = hits
       ELSE /\ hits' = [hits EXCEPT ![WalletKey] = count]
            /\ reqs' = [reqs EXCEPT ![r] =
                           IF count = 1
                           THEN [@ EXCEPT !.pc = "wallet_expire", !.walletCount = count]
                           ELSE WalletDecides([@ EXCEPT !.walletCount = count], count)]
            /\ admitted' = IF count = 1 \/ count > WALLET_MAX THEN admitted
                           ELSE [admitted EXCEPT ![WalletKey] = @ + 1]
    /\ UNCHANGED <<expiry, estimates, execVars, poolVars>>

\* walletRateLimiter from the return of expire: the key has its expiry and
\* the count of 1 is let through; an error of expire goes to the catch
\* block, which calls next() and leaves the key as it is
walletRateLimiterExpire(r, storeOk) ==
    /\ reqs[r].pc = "wallet_expire"
    /\ expiry' = IF storeOk THEN expiry \cup {WalletKey} ELSE expiry
    /\ reqs' = [reqs EXCEPT ![r] = WalletNext(@)]
    /\ admitted' = [admitted EXCEPT ![WalletKey] = @ + 1]
    /\ UNCHANGED <<hits, estimates, execVars, poolVars>>

\* the store drops a key when its expiry is reached: the window of the key
\* is over and its next increment starts from nothing
KeyExpires(k) ==
    /\ k \in expiry
    /\ hits' = [hits EXCEPT ![k] = 0]
    /\ expiry' = expiry \ {k}
    /\ admitted' = [admitted EXCEPT ![k] = 0]
    /\ UNCHANGED <<estimates, reqs, execVars, poolVars>>

\* the quote of the router: Math.floor((amount * feeRate) / 10000)
RouterFee(amount) == (amount * ROUTER_FEE_RATE) \div 10000

\* router.post('/estimate') up to the await of estimateGasCost: the
\* transaction block handed over is the placeholder {}, whose build is not
\* a function, so estimateGasCost ends in its catch block
estimateHandler(r) ==
    /\ reqs[r].pc = "handler"
    /\ reqs[r].route = "estimate"
    /\ IF reqs[r].body = "valid"
       THEN /\ EstimateCall(r, FALSE)
            /\ reqs' = [reqs EXCEPT ![r].pc = "service", ![r].estimatorCalls = @ + 1]
       ELSE /\ reqs' = [reqs EXCEPT ![r] = Respond(@, 400, FALSE, "VALIDATION_ERROR")]
            /\ UNCHANGED <<estimates, execVars>>
    /\ UNCHANGED <<storeVars, poolVars>>

\* the rest of the estimate handler: the fee quote, insertAuditLog and the
\* response; an error of insertAuditLog goes to the catch block
estimateResponds(r, dbOk) ==
    /\ reqs[r].pc = "service"
    /\ reqs[r].route = "estimate"
    /\ estimates[r].pc = "done"
    /\ reqs' = [reqs EXCEPT ![r] =
                   IF dbOk
                   THEN [Respond(@, 200, TRUE, "none")
                            EXCEPT !.audited = TRUE,
                                   !.feeAmount = RouterFee(reqs[r].amount),
                                   !.totalRepayment = reqs[r].amount + RouterFee(reqs[r].amount)]
                   ELSE Respond(@, 500, FALSE, "ESTIMATION_ERROR")]
    /\ UNCHANGED <<estimates, storeVars, execVars, poolVars>>

\* router.post('/execute') up to the await of executeTransaction: the
\* transaction block is the deserialized body value, whose setGasBudget is
\* not a function, so executeTransaction ends in its catch block with
\* status 'failed' and executeWithFailover is not entered
executeHandler(r) ==
    /\ reqs[r].pc = "handler"
    /\ reqs[r].route = "execute"
    /\ reqs' = [reqs EXCEPT ![r] =
                   IF @.body = "valid"
                   THEN [@ EXCEPT !.pc = "service", !.submitCalls = @ + 1,
                                  !.txStatus = "failed"]
                   ELSE Respond(@, 400, FALSE, "VALIDATION_ERROR")]
    /\ UNCHANGED <<estimates, storeVars, execVars, poolVars>>

\* the rest of the execute handler: insertAuditLog, insertTransaction for a
\* successful result, and the response
executeResponds(r, dbOk) ==
    /\ reqs[r].pc = "service"
    /\ reqs[r].route = "execute"
    /\ reqs' = [reqs EXCEPT ![r] =
                   IF dbOk
                   THEN [Respond(@, 200, @.txStatus = "success", "none")
                            EXCEPT !.audited = TRUE,
                                   !.feeAmount = RouterFee(reqs[r].amount)]
                   ELSE Respond(@, 500, FALSE, "EXECUTION_ERROR")]
    /\ UNCHANGED <<estimates, storeVars, execVars, poolVars>>

\* initializeSuiClient has committed to the first endpoint that answered
InitExec ==
    /\ calls = [c \in CallIds |-> IdleCall]
    /\ \E k \in Endpoints :
          /\ currentRpcIndex = k
          /\ suiClient = k
          /\ reachable \in {r \in SUBSET Endpoints : k \in r /\ \A j \in 0..(k - 1) : j \notin r}

InitPool ==
    /\ pools = [q \in {} |-> 0]
    /\ caps = {}
    /\ settled = [k \in PoolIds \X (0..MaxLoans) |-> 0]
    /\ snap = [q \in PoolIds |-> NoSnap]
    /\ last = NoCall

\* the executor at rest on the first endpoint, all endpoints answering
InitExecAtRest ==
    /\ calls = [c \in CallIds |-> IdleCall]
    /\ currentRpcIndex = 0
    /\ suiClient = 0
    /\ reachable = Endpoints

\* no request in the house, empty counters
InitApiAtRest ==
    /\ estimates = [c \in CallIds |-> IdleEstimate]
    /\ reqs = [c \in CallIds |-> NoRequest]
    /\ hits = [k \in HitKeys |-> 0]
    /\ expiry = {}
    /\ admitted = [k \in HitKeys |-> 0]

\* the counters of a limiter are all fresh, or all one short of the maximum
\* after that many requests were let through in their windows
WindowCounts(fresh) ==
    [k \in HitKeys |-> IF k[1] \in fresh THEN 0 ELSE LimitOf(k[1]) - 1]

InitApi ==
    /\ estimates = [c \in CallIds |-> IdleEstimate]
    /\ reqs = [c \in CallIds |-> NoRequest]
    /\ \E fresh \in SUBSET {GlobalPrefix, FlashLoanPrefix, WalletPrefix} :
          /\ hits = WindowCounts(fresh)
          /\ expiry = {k \in HitKeys : WindowCounts(fresh)[k] > 0}
          /\ admitted = WindowCounts(fresh)

Init == InitPool /\ InitExec /\ InitApiAtRest

\* no backend process: no call, no request, no counter
NoBackend ==
    /\ calls = <<>>
    /\ currentRpcIndex = 0
    /\ suiClient = 0
    /\ reachable = {}
    /\ estimates = <<>>
    /\ reqs = <<>>
    /\ hits = <<>>
    /\ expiry = {}
    /\ admitted = <<>>

\* the ledger alone
InitLedger == InitPool /\ NoBackend

\* the HTTP surface on a server whose client is initialized
InitService == InitPool /\ InitExecAtRest /\ InitApi

\* one pool under every input
NextPool ==
    \/ \E p \in FirstPool, d \in InitialDeposits, r \in FeeRates, m \in MaxLoanAmounts :
          create_pool(p, ADMIN, d, r, m)
    \/ \E p \in PoolIds, s \in Borrowers, a \in LoanAmounts :
          request_flash_loan(p, s, a)
    \/ \E p \in PoolIds : repay_flash_loan_entry(p)
    \/ \E p \in PoolIds, s \in Addresses : pause_pool(p, s)
    \/ \E p \in PoolIds, s \in Addresses : resume_pool(p, s)
    \/ \E p \in PoolIds, s \in Addresses, r \in FeeRates, m \in MaxLoanAmounts :
          update_pool_params(p, s, r, m)
    \/ \E p \in PoolIds, s \in Addresses, a \in WithdrawAmounts :
          withdraw_fees(p, s, a)

SpecPool == InitLedger /\ [][NextPool]_vars

\* two pools side by side, with one valid and one invalid fee rate
NextTwoPools ==
    \/ \E p \in PoolIds, d \in InitialDeposits, r \in TwoPoolFeeRates, m \in TwoPoolMaxLoanAmounts :
          create_pool(p, ADMIN, d, r, m)
    \/ \E p \in PoolIds, s \in Borrowers, a \in LoanAmounts :
          request_flash_loan(p, s, a)
    \/ \E p \in PoolIds : repay_flash_loan_entry(p)
    \/ \E p \in PoolIds, s \in Addresses : pause_pool(p, s)
    \/ \E p \in PoolIds, s \in Addresses : resume_pool(p, s)
    \/ \E p \in PoolIds, s \in Addresses, r \in TwoPoolFeeRates, m \in TwoPoolMaxLoanAmounts :
          update_pool_params(p, s, r, m)
    \/ \E p \in PoolIds, s \in Addresses, a \in WithdrawAmounts :
          withdraw_fees(p, s, a)

SpecTwoPools == InitLedger /\ [][NextTwoPools]_vars

\* one pool under the figures of the tests
NextLifecycle ==
    \/ \E p \in FirstPool, d \in TestDeposits, r \in TestFeeRates, m \in TestMaxLoanAmounts :
          create_pool(p, ADMIN, d, r, m)
    \/ \E p \in FirstPool, s \in Borrowers, a \in TestLoanAmounts :
          request_flash_loan(p, s, a)
    \/ \E p \in FirstPool, x \in TestRepayments : repay_flash_loan_with(p, x)
    \/ \E p \in FirstPool, s \in Addresses : pause_pool(p, s)
    \/ \E p \in FirstPool, s \in Addresses : resume_pool(p, s)
    \/ \E p \in FirstPool, s \in Addresses, a \in TestWithdrawAmounts :
          withdraw_fees(p, s, a)

SpecLifecycle == InitLedger /\ [][NextLifecycle]_vars

\* one logical call at a time
NextExec ==
    \/ \E m \in (1..MaxAttemptsInput) \cup {UNDEFINED} : StartExecuteTransaction("c1", m)
    \/ StartRead("c1")
    \/ \E o \in {"success", "network", "network_after_commit", "validation", "other"} :
          OpSettles("c1", o)
    \/ ProbeSucceeds("c1")
    \/ ProbeFails("c1")
    \/ SwitchSleepEnds("c1")
    \/ BackoffEnds("c1")
    \/ \E e \in Endpoints : EndpointFlips(e)

SpecExec == Init /\ [][NextExec]_vars

\* the server at rest on the first endpoint
InitAtRest == InitPool /\ InitExecAtRest /\ InitApiAtRest

\* two reads through executeWithFailover interleaved at their awaits, while
\* endpoints go down one after the other and one at least stays up
NextConcurrent ==
    \/ \E c \in CallIds : StartRead(c)
    \/ \E c \in CallIds, o \in {"success", "network", "validation", "other"} :
          OpSettles(c, o)
    \/ \E c \in CallIds : ProbeSucceeds(c)
    \/ \E c \in CallIds : ProbeFails(c)
    \/ \E c \in CallIds : SwitchSleepEnds(c)
    \/ \E c \in CallIds : BackoffEnds(c)
    \/ \E e \in Endpoints : EndpointGoesDown(e)

SpecConcurrent == InitAtRest /\ [][NextConcurrent]_vars

\* one estimateGasCost call and the executor under it
NextEstimate ==
    \/ \E b \in BOOLEAN : estimateGasCost("c1", b)
    \/ \E st \in DryRunStatuses, cc \in ComputationCosts, sc \in StorageCosts,
          sr \in StorageRebates : DryRunReturns("c1", st, cc, sc, sr)
    \/ DryRunThrows("c1")
    \/ \E o \in {"success", "network", "validation", "other"} : OpSettles("c1", o)
    \/ ProbeSucceeds("c1")
    \/ ProbeFails("c1")
    \/ SwitchSleepEnds("c1")
    \/ BackoffEnds("c1")
    \/ \E e \in Endpoints : EndpointFlips(e)

SpecEstimate == Init /\ [][NextEstimate]_vars

\* the requests of the model from one origin, each handled once, side by side
NextApi ==
    \/ \E r \in CallIds, route \in Routes, ip \in FirstOrigin, body \in Bodies,
          amount \in RequestAmounts, sim \in OperationSims :
          ReceiveRequest(r, route, ip, body, amount, sim)
    \/ \E r \in CallIds : globalRateLimiter(r)
    \/ \E r \in CallIds : flashLoanRateLimiter(r)
    \/ \E r \in CallIds, storeOk \in BOOLEAN : walletRateLimiter(r, storeOk)
    \/ \E r \in CallIds, storeOk \in BOOLEAN : walletRateLimiterExpire(r, storeOk)
    \/ \E r \in CallIds : estimateHandler(r)
    \/ \E r \in CallIds, dbOk \in BOOLEAN : estimateResponds(r, dbOk)
    \/ \E r \in CallIds : executeHandler(r)
    \/ \E r \in CallIds, dbOk \in BOOLEAN : executeResponds(r, dbOk)

SpecApi == InitService /\ [][NextApi]_vars

\* execute requests from two origins at the limiters, while the keys of the
\* store expire
NextGate ==
    \/ \E r \in CallIds, ip \in Origins, body \in GateBodies,
          amount \in RequestAmounts, sim \in GateSims :
          ReceiveRequest(r, "execute", ip, body, amount, sim)
    \/ \E r \in CallIds : globalRateLimiter(r)
    \/ \E r \in CallIds : flashLoanRateLimiter(r)
    \/ \E r \in CallIds, storeOk \in BOOLEAN : walletRateLimiter(r, storeOk)
    \/ \E r \in CallIds, storeOk \in BOOLEAN : walletRateLimiterExpire(r, storeOk)
    \/ \E r \in CallIds : executeHandler(r)
    \/ \E r \in CallIds, dbOk \in {TRUE} : executeResponds(r, dbOk)
    \/ \E k \in HitKeys : KeyExpires(k)

SpecGate == InitService /\ [][NextGate]_vars

\* one pool, and one request to the router by its borrower
NextQuote ==
    \/ \E p \in FirstPool, d \in TestDeposits, r \in QuoteFeeRates, m \in TestMaxLoanAmounts :
          create_pool(p, ADMIN, d, r, m)
    \/ \E p \in FirstPool, s \in Borrowers, a \in TestLoanAmounts :
          request_flash_loan(p, s, a)
    \/ \E p \in FirstPool, r \in FirstRequest : repay_flash_loan_quoted(p, r)
    \/ \E r \in FirstRequest, route \in Routes, ip \in FirstOrigin, body \in GateBodies,
          amount \in TestLoanAmounts, sim \in GateSims :
          ReceiveRequest(r, route, ip, body, amount, sim)
    \/ \E r \in FirstRequest : globalRateLimiter(r)
    \/ \E r \in FirstRequest : flashLoanRateLimiter(r)
    \/ \E r \in FirstRequest, storeOk \in BOOLEAN : walletRateLimiter(r, storeOk)
    \/ \E r \in FirstRequest, storeOk \in BOOLEAN : walletRateLimiterExpire(r, storeOk)
    \/ \E r \in FirstRequest : estimateHandler(r)
    \/ \E r \in FirstRequest, dbOk \in BOOLEAN : estimateResponds(r, dbOk)
    \/ \E r \in FirstRequest : executeHandler(r)
    \/ \E r \in FirstRequest, dbOk \in BOOLEAN : executeResponds(r, dbOk)

SpecQuote == InitAtRest /\ [][NextQuote]_vars

(* ================================================================== *)
(* Properties of the pool                                              *)
(* ================================================================== *)
OwnerOps == {"pause_pool", "resume_pool", "update_pool_params", "withdraw_fees"}

\* the receipt of a loan id in a pool (the loan id must have a receipt)
ReceiptOf(pool, loan_id) == pool.active_loans[FindReceipt(pool.active_loans, loan_id)]

HasReceipt(pool, loan_id) == FindReceipt(pool.active_loans, loan_id) # 0

\* loans of pool p issued and not yet settled by a repayment
Outstanding(p) ==
    {id \in 0..(pools[p].total_loans_issued - 1) : settled[<<p, id>>] = 0}

\* C1: no committed pool state contains an issued loan that has not been
\* repaid (issuance and repayment happen in one atomic ledger operation).
C1_NoCommittedUnrepaidLoan ==
    \A p \in Created : \A i \in 1..Len(pools[p].active_loans) :
        pools[p].active_loans[i].is_repaid

\* C2: a repayment succeeds only with a capability minted by that same pool.
C2_CapabilityBoundToPool ==
    (last.op = "repay_flash_loan" /\ last.err = OK) => last.origin = last.pool

\* C3: each loan id of a pool is settled by at most one successful
\* repayment; a later repayment attempt for it fails with LoanAlreadyRepaid
\* or LoanNotFound and leaves the pool unchanged.
C3_LaterRepaymentFails ==
    (/\ last'.op = "repay_flash_loan"
     /\ settled[<<last'.pool, last'.loan_id>>] >= 1)
    => /\ last'.err \in {E_LOAN_ALREADY_REPAID, E_LOAN_NOT_FOUND}
       /\ pools' = pools
       /\ settled' = settled

\* C3: every loan id is settled at most once, and a later repayment attempt
\* for it fails and changes nothing.
C3_SettledAtMostOnce ==
    /\ [](\A k \in DOMAIN settled : settled[k] <= 1)
    /\ [][C3_LaterRepaymentFails]_vars

C3_Witness ==
    /\ last.op = "repay_flash_loan"
    /\ last.err = E_LOAN_ALREADY_REPAID
    /\ settled[<<last.pool, last.loan_id>>] = 1

\* C5: get_active_loans_count is the number of loans issued and not yet
\* repaid.
C5_ActiveCountIsOutstanding ==
    \A p \in Created :
        get_active_loans_count(pools[p]) = Cardinality(Outstanding(p))

\* C6: the fee of an accepted loan is floor(a * r / 10000), the value
\* calculate_flash_loan_cost returns; repaying exactly a + fee for an
\* outstanding loan succeeds, credits a + fee and adds fee to the collected
\* fees; issuing and then repaying leaves the balance at its value before
\* issuance plus fee.
C6_FeeIsFloor ==
    (last.op = "request_flash_loan" /\ last.err = OK)
    => LET pool == pools[last.pool]
           fee == ReceiptOf(pool, last.loan_id).fee_amount
       IN  /\ fee * BPS_DENOMINATOR <= last.amount * pool.fee_rate
           /\ last.amount * pool.fee_rate < (fee + 1) * BPS_DENOMINATOR
           /\ calculate_flash_loan_cost(pool, last.amount) = <<fee, last.amount + fee>>

C6_RoundTrip ==
    (/\ last.op = "repay_flash_loan"
     /\ last.err = OK
     /\ snap[last.pool].loan_id = last.loan_id
     /\ last.amount = RequiredRepayment(ReceiptOf(pools[last.pool], last.loan_id)))
    => LET pool == pools[last.pool]
           fee == ReceiptOf(pool, last.loan_id).fee_amount
       IN  /\ pool.balance = snap[last.pool].balance + fee
           /\ pool.total_fees_collected = snap[last.pool].fees + fee

C6_ExactRepaymentStep ==
    (/\ last'.op = "repay_flash_loan"
     /\ HasReceipt(pools[last'.pool], last'.loan_id)
     /\ ~ReceiptOf(pools[last'.pool], last'.loan_id).is_repaid
     /\ last'.amount = RequiredRepayment(ReceiptOf(pools[last'.pool], last'.loan_id)))
    => LET pool == pools[last'.pool]
           r == ReceiptOf(pool, last'.loan_id)
       IN  /\ last'.err = OK
           /\ pools'[last'.pool].balance = pool.balance + r.amount_borrowed + r.fee_amount
           /\ pools'[last'.pool].total_fees_collected = pool.total_fees_collected + r.fee_amount

C7_OverBalanceStep ==
    (/\ last'.op = "request_flash_loan"
     /\ last'.amount > pools[last'.pool].balance)
    => /\ last'.err = E_INSUFFICIENT_BALANCE
       /\ pools' = pools

\* C7 (as stated): every request above the balance fails with
\* InsufficientBalance and changes nothing.
C7_OverBalanceIsInsufficientBalance == [][C7_OverBalanceStep]_vars

\* C7 (amended): a request for more than the pool balance fails and leaves
\* the pool and the capabilities unchanged; the error is PoolPaused when the
\* pool is paused, else InvalidAmount when the amount exceeds
\* max_loan_amount, else InsufficientBalance.
C7_OverBalanceFailsStep ==
    (/\ last'.op = "request_flash_loan"
     /\ last'.amount > pools[last'.pool].balance)
    => LET pool == pools[last'.pool] IN
       /\ last'.err = IF pool.is_paused THEN E_POOL_PAUSED
                      ELSE IF last'.amount > pool.max_loan_amount THEN E_INVALID_AMOUNT
                      ELSE E_INSUFFICIENT_BALANCE
       /\ pools' = pools
       /\ caps' = caps

\* C7 (amended): every request above the balance fails with the error the
\* first failing check gives and changes nothing.
C7_OverBalanceFails == [][C7_OverBalanceFailsStep]_vars

C7_Witness ==
    /\ last.op = "request_flash_loan"
    /\ last.err = E_INSUFFICIENT_BALANCE
    /\ last.amount > pools[last.pool].balance
    /\ pools[last.pool].total_loans_issued > 0

\* C8: while the pool is paused every request fails with PoolPaused,
\* whatever the amount, and changes nothing; pause_pool sets the flag,
\* resume_pool clears it, nothing else changes it, and a pool that is not
\* paused accepts a request whose amount is valid.
C8_PausedStep ==
    /\ (last'.op = "request_flash_loan" /\ pools[last'.pool].is_paused)
       => /\ last'.err = E_POOL_PAUSED
          /\ pools' = pools
          /\ caps' = caps
    /\ (last'.op = "request_flash_loan" /\ ~pools[last'.pool].is_paused
          /\ last'.amount > 0
          /\ last'.amount <= pools[last'.pool].max_loan_amount
          /\ last'.amount <= pools[last'.pool].balance)
       => /\ last'.err = OK
          /\ pools'[last'.pool].total_loans_issued = pools[last'.pool].total_loans_issued + 1
    /\ (last'.op = "pause_pool" /\ last'.err = OK) => pools'[last'.pool].is_paused
    /\ (last'.op = "resume_pool" /\ last'.err = OK) => ~pools'[last'.pool].is_paused
    /\ \A p \in Created :
          pools'[p].is_paused # pools[p].is_paused
          => last'.op \in {"pause_pool", "resume_pool"} /\ last'.pool = p

\* C8: no loan is issued while the pool is paused; requests then fail with
\* PoolPaused and are accepted again after resume_pool.
C8_NoLoanWhilePaused == [][C8_PausedStep]_vars

C8_Witness ==
    /\ last.op = "request_flash_loan"
    /\ last.err = E_POOL_PAUSED
    /\ last.amount = 0
    /\ pools[last.pool].is_paused

\* C9: an owner operation called by anyone but pool.owner fails with
\* Unauthorized and leaves every pool field unchanged; the paused flag, the
\* fee rate, the loan maximum and the collected fees taken out change only
\* in calls by the owner.
C9_OwnerOnlyStep ==
    /\ (last'.op \in OwnerOps /\ last'.sender # pools[last'.pool].owner)
       => /\ last'.err = E_UNAUTHORIZED
          /\ pools' = pools
    /\ \A p \in Created :
          (\/ pools'[p].is_paused # pools[p].is_paused
           \/ pools'[p].fee_rate # pools[p].fee_rate
           \/ pools'[p].max_loan_amount # pools[p].max_loan_amount
           \/ pools'[p].total_fees_collected < pools[p].total_fees_collected)
          => /\ last'.op \in OwnerOps
             /\ last'.pool = p
             /\ last'.sender = pools[p].owner

\* C9: owner operations by another caller fail with Unauthorized and change
\* nothing.
C9_OwnerOnly == [][C9_OwnerOnlyStep]_vars

C9_Witness ==
    /\ last.op = "withdraw_fees"
    /\ last.err = E_UNAUTHORIZED
    /\ last.sender # pools[last.pool].owner
    /\ last.amount <= pools[last.pool].total_fees_collected
    /\ last.amount <= pools[last.pool].balance

\* C10 (as stated): for the owner, withdraw_fees(amount) succeeds exactly
\* when amount <= total_fees_collected and then decreases the collected fees
\* and the balance by amount; a larger amount fails with InsufficientBalance
\* and changes nothing.
C10_WithdrawStepOriginal ==
    (last'.op = "withdraw_fees" /\ last'.sender = pools[last'.pool].owner)
    => LET pool == pools[last'.pool] IN
       IF last'.amount <= pool.total_fees_collected
       THEN /\ last'.err = OK
            /\ pools'[last'.pool].total_fees_collected = pool.total_fees_collected - last'.amount
            /\ pools'[last'.pool].balance = pool.balance - last'.amount
       ELSE /\ last'.err = E_INSUFFICIENT_BALANCE
            /\ pools' = pools

C10_WithdrawStepAmended ==
    (last'.op = "withdraw_fees" /\ last'.sender = pools[last'.pool].owner)
    => LET pool == pools[last'.pool] IN
       IF last'.amount <= pool.total_fees_collected /\ last'.amount <= pool.balance
       THEN /\ last'.err = OK
            /\ pools'[last'.pool].total_fees_collected = pool.total_fees_collected - last'.amount
            /\ pools'[last'.pool].balance = pool.balance - last'.amount
       ELSE /\ last'.err = IF last'.amount > pool.total_fees_collected
                           THEN E_INSUFFICIENT_BALANCE ELSE ENotEnough
            /\ pools' = pools

C11_CeilingStepOriginal ==
    /\ (last'.op \in {"create_pool", "update_pool_params"} /\ last'.amount > MAX_FEE_RATE)
       => /\ last'.err = E_FEE_RATE_TOO_HIGH
          /\ pools' = pools
    /\ \A p \in Created :
          pools'[p].fee_rate # pools[p].fee_rate
          => last'.op = "update_pool_params" /\ last'.pool = p

\* C11 (as stated): fee_rate <= 500 in every reachable pool state, and every
\* create_pool or update_pool_params with a rate above 500 fails with
\* FeeRateTooHigh.
C11_FeeRateTooHighAlways ==
    /\ [](\A p \in Created : pools[p].fee_rate <= MAX_FEE_RATE)
    /\ [][C11_CeilingStepOriginal]_vars

\* C11 (amended): a create_pool, or an update_pool_params called by the
\* owner, with a rate above 500 fails with FeeRateTooHigh; an
\* update_pool_params called by anyone else fails with Unauthorized whatever
\* the rate; either way nothing changes, and no other operation changes
\* fee_rate.
C11_CeilingStepAmended ==
    /\ (last'.op = "create_pool" /\ last'.amount > MAX_FEE_RATE)
       => /\ last'.err = E_FEE_RATE_TOO_HIGH
          /\ pools' = pools
    /\ (last'.op = "update_pool_params" /\ last'.amount > MAX_FEE_RATE)
       => /\ last'.err = IF last'.sender = pools[last'.pool].owner
                         THEN E_FEE_RATE_TOO_HIGH ELSE E_UNAUTHORIZED
          /\ pools' = pools
    /\ \A p \in Created :
          pools'[p].fee_rate # pools[p].fee_rate
          => last'.op = "update_pool_params" /\ last'.pool = p

\* C11 (amended): fee_rate <= 500 in every reachable pool state; a rate
\* above 500 is refused with FeeRateTooHigh by create_pool and by the
\* owner's update_pool_params, and no other operation changes fee_rate.
C11_FeeRateCeiling ==
    /\ [](\A p \in Created : pools[p].fee_rate <= MAX_FEE_RATE)
    /\ [][C11_CeilingStepAmended]_vars

C11_Witness ==
    /\ last.op = "update_pool_params"
    /\ last.err = E_FEE_RATE_TOO_HIGH
    /\ last.amount > MAX_FEE_RATE
    /\ last.sender = pools[last.pool].owner
    /\ pools[last.pool].fee_rate = MAX_FEE_RATE

(* ================================================================== *)
(* Properties of the executor                                          *)
(* ================================================================== *)
\* C4: executeTransaction never submits the same signed operation to the
\* ledger more than once, so the ledger never commits it twice.
C4_SubmittedAtMostOnce ==
    \A c \in CallIds :
        calls[c].kind = "executeTransaction"
        => calls[c].invocations <= 1 /\ calls[c].commits <= 1

\* the call has ended, by returning or by throwing
Ended(call) == call.pc \in {"returned", "threw"}

\* the awaited operation of call c fails in this step
OpFails(c) ==
    /\ calls[c].pc = "await_op"
    /\ calls'[c].pc \notin {"await_op", "returned"}

\* C14: when the operation fails with an error that is not network-class,
\* the call throws that error at once: no further invocation, no backoff
\* sleep and no endpoint switch follow.
C14_NonNetworkStep ==
    \A c \in CallIds :
        (OpFails(c) /\ ~isNetworkError(calls'[c].lastError))
        => /\ calls'[c].pc = "threw"
           /\ calls'[c].result = calls'[c].lastError

\* C14: a failure that is not network-class is propagated without retry.
C14_NonNetworkErrorNotRetried == [][C14_NonNetworkStep]_vars

\* C15: the operation is never invoked more than maxAttempts times, and a
\* call whose maxAttempts invocations all failed ends by throwing the error
\* of the last invocation.
C15_LastErrorAfterMaxAttempts ==
    \A c \in CallIds :
        calls[c].maxAttempts # UNDEFINED
        => /\ calls[c].invocations <= calls[c].maxAttempts
           /\ (calls[c].pc = "threw" /\ calls[c].invocations = calls[c].maxAttempts)
              => calls[c].result = calls[c].lastError

\* C16: a call whose invocations so far all failed with network-class
\* errors, and which has attempts left, does not end by throwing: it goes
\* on to the invocation that succeeds and returns its result.
C16_RetriedUntilSuccess ==
    \A c \in CallIds :
        (/\ calls[c].pc = "threw"
         /\ calls[c].invocations >= 1
         /\ calls[c].networkFailures = calls[c].invocations)
        => ~LeqJS(calls[c].invocations + 1, calls[c].maxAttempts)

\* C17: every invocation that follows a network-class failure runs against
\* the endpoint after the one that just failed.
C17_RotationStep ==
    \A c \in CallIds :
        (/\ calls[c].pc \in {"await_probe", "backoff"}
         /\ isNetworkError(calls[c].lastError)
         /\ calls'[c].pc = "await_op")
        => calls'[c].opClient = (calls[c].opClient + 1) % NumEndpoints

\* C17: a retry after a network-class failure never runs against the
\* endpoint that just failed, but against the next one in the list.
C17_RetryOnNextEndpoint == [][C17_RotationStep]_vars

\* C18: when the caller passes no maxAttempts the call runs with the default
\* of 3, and an executeTransaction so called invokes the submit operation at
\* least once and at most 3 times.
C18_DefaultMaxAttemptsApplied ==
    \A c \in CallIds :
        (calls[c].pc # "idle" /\ calls[c].requested = UNDEFINED)
        => /\ calls[c].maxAttempts = DefaultMaxAttempts
           /\ (calls[c].kind = "executeTransaction" /\ Ended(calls[c]))
              => /\ calls[c].invocations >= 1
                 /\ calls[c].invocations <= DefaultMaxAttempts

(* ================================================================== *)
(* Properties of the estimator and of the HTTP surface                 *)
(* ================================================================== *)
AllThrottles == {GlobalPrefix, FlashLoanPrefix, WalletPrefix}

\* C12: on the execute path the viability of the operation is validated
\* before executeTransaction is invoked, and executeTransaction is never
\* invoked for an operation whose simulation fails or whose cost with margin
\* is above the ceiling.
C12_NonViableNeverSubmitted ==
    \A r \in CallIds :
        (reqs[r].route = "execute" /\ reqs[r].submitCalls > 0)
        => /\ reqs[r].estimatorCalls > 0
           /\ Viable(reqs[r].sim)

\* C13: a request reaches estimateGasCost or executeTransaction only after
\* the origin, operation-class and identity throttles have all admitted it,
\* on the estimate endpoint as on the execute endpoint.
C13_AdmittedByAllThrottles ==
    \A r \in CallIds :
        (reqs[r].estimatorCalls > 0 \/ reqs[r].submitCalls > 0)
        => AllThrottles \subseteq reqs[r].admittedBy

\* C20: for a simulation that reports success, gasEstimate is the least
\* integer not below 1.2 * (computation + storage - rebate), isValid says
\* that gasEstimate is within the ceiling, and an error text is present
\* exactly when isValid is false.
C20_MarginedCostAndViability ==
    \A c \in CallIds :
        (estimates[c].pc = "done" /\ estimates[c].simulated = "success")
        => LET e == estimates[c]
               raw == e.computationCost + e.storageCost - e.storageRebate
           IN  /\ 5 * e.gasEstimate >= 6 * raw
               /\ 5 * e.gasEstimate < 6 * raw + 5
               /\ e.isValid = (e.gasEstimate <= MAX_GAS_BUDGET)
               /\ (e.error # NoErrorText) = ~e.isValid

C20_Witness ==
    \E c \in CallIds :
        /\ estimates[c].pc = "done"
        /\ estimates[c].simulated = "success"
        /\ (estimates[c].computationCost + estimates[c].storageCost
              - estimates[c].storageRebate) % 5 # 0
        /\ estimates[c].gasEstimate = MAX_GAS_BUDGET + 1
        /\ ~estimates[c].isValid
        /\ calls[c].invocations > 1

\* C19: interleaved calls do not influence each other: a call that throws
\* throws the error of its own last invocation, and it stops before its own
\* maxAttempts invocations only on a validation error of its own operation.
C19_OutcomeFromOwnAttempts ==
    \A c \in CallIds :
        calls[c].pc = "threw"
        => /\ calls[c].result = calls[c].lastError
           /\ \/ calls[c].lastError = ErrValidation
              \/ calls[c].invocations = calls[c].maxAttempts

\* C28: with interleaved calls sharing currentRpcIndex, a call of
\* switchToNextRpcEndpoint raises 'All RPC endpoints failed' only after
\* that call probed every configured endpoint and found it unreachable; no
\* endpoint is skipped because another call moved the index meanwhile.
C28_AllFailedMeansAllProbed ==
    \A c \in CallIds :
        (calls[c].pc = "threw" /\ calls[c].result = ErrAllEndpointsFailed)
        => calls[c].probed = Endpoints

(* ================================================================== *)
(* Properties of the limiters                                          *)
(* ================================================================== *)
\* C21: within the window of a borrower identity at most 5 execute requests
\* carrying it are let through by walletRateLimiter, whatever their
\* origins; a request carrying it in a window where 5 were let through is
\* answered 429 and does not reach executeTransaction.
C21_IdentityThrottle ==
    /\ admitted[WalletKey] <= WALLET_MAX
    /\ \A r \in CallIds :
          (/\ reqs[r].route = "execute"
           /\ reqs[r].walletCount > WALLET_MAX)
          => (/\ reqs[r].pc = "responded"
              /\ reqs[r].status = 429
              /\ reqs[r].submitCalls = 0)

\* C22: with the operation-class limit at 10, no more than 10 execute
\* requests of one origin are let through by flashLoanRateLimiter in one
\* window of that origin's key, and the 11th and later ones are answered
\* 429 and do not reach executeTransaction.
C22_OperationClassThrottle ==
    /\ \A ip \in Origins : admitted[<<FlashLoanPrefix, ip>>] <= 10
    /\ \A r \in CallIds :
          (/\ reqs[r].route = "execute"
           /\ reqs[r].flashCount >= 11)
          => (/\ reqs[r].pc = "responded"
              /\ reqs[r].status = 429
              /\ reqs[r].rejectedBy = FlashLoanPrefix
              /\ reqs[r].submitCalls = 0)

\* the 11th execute request of an origin in a window was turned away after
\* the 10th was let through
C22_Witness ==
    \E r \in CallIds, q \in CallIds :
        /\ reqs[r].route = "execute" /\ reqs[q].route = "execute"
        /\ reqs[r].ip = reqs[q].ip
        /\ reqs[q].flashCount = 10 /\ FlashLoanPrefix \in reqs[q].admittedBy
        /\ reqs[r].flashCount = 11 /\ reqs[r].status = 429
        /\ admitted[<<FlashLoanPrefix, reqs[r].ip>>] = 10

\* C23: every estimate or execute request that ends in an error response
\* has an audit record by then: the insertAuditLog of the router or the
\* security event of the limiter that turned it away.
C23_TerminalErrorAudited ==
    \A r \in CallIds :
        (reqs[r].pc = "responded" /\ reqs[r].status # 200)
        => (reqs[r].audited \/ reqs[r].securityEvent)

\* C24: every non-zero identity counter carries an expiry once the request
\* that counted 1 has left walletRateLimiter, also when its expire step
\* failed or two first requests raced; without an expiry the key is never
\* dropped and a throttled identity stays throttled.
C24_IdentityCounterExpires ==
    (/\ hits[WalletKey] > 0
     /\ \A r \in CallIds : reqs[r].pc # "wallet_expire")
    => WalletKey \in expiry

(* ================================================================== *)
(* Properties of the pool under the figures of the tests               *)
(* ================================================================== *)
\* C25: for a pool with fee rate 50, calculate_flash_loan_cost of a loan of
\* 100,000,000 is (50000, 100050000), and repay_flash_loan with a coin of
\* 100,050,000 is not refused as insufficient.
C25_TestFigures ==
    /\ \A p \in Created :
          pools[p].fee_rate = 50
          => calculate_flash_loan_cost(pools[p], 100000000) = <<50000, 100050000>>
    /\ (last.op = "repay_flash_loan" /\ last.amount = 100050000)
       => last.err # E_INSUFFICIENT_REPAYMENT

(* ================================================================== *)
(* Properties of the pool's funds                                      *)
(* ================================================================== *)
RECURSIVE UnrepaidPrincipal(_)
\* the sum of the principals of the receipts that are not repaid
UnrepaidPrincipal(receipts) ==
    IF receipts = <<>> THEN 0
    ELSE (IF Head(receipts).is_repaid THEN 0 ELSE Head(receipts).amount_borrowed)
         + UnrepaidPrincipal(Tail(receipts))

\* what the pool holds or is owed beyond the fees it has collected
PrincipalHeld(pool) ==
    pool.balance + UnrepaidPrincipal(pool.active_loans) - pool.total_fees_collected

\* a pool starts with its deposit, and no transaction lowers what it holds
\* or is owed beyond the collected fees
C26_Step ==
    \A p \in DOMAIN pools' :
        IF p \in Created
        THEN PrincipalHeld(pools'[p]) >= PrincipalHeld(pools[p])
        ELSE /\ pools'[p].balance \in InitialDeposits
             /\ PrincipalHeld(pools'[p]) = pools'[p].balance

\* C26: in every reachable pool state balance + principals of the unrepaid
\* receipts >= initial deposit + total_fees_collected, across loans,
\* repayments, parameter updates and fee withdrawals: the fees withdrawn
\* never come out of the deposited principal.
C26_PrincipalPreserved == [][C26_Step]_vars

\* fees were withdrawn from a pool that has a loan out and a balance below
\* its deposit
C26_Witness ==
    /\ last.op = "withdraw_fees" /\ last.err = OK
    /\ \E p \in Created :
          /\ last.pool = p
          /\ UnrepaidPrincipal(pools[p].active_loans) > 0
          /\ pools[p].balance \notin InitialDeposits
          /\ \A d \in InitialDeposits : pools[p].balance < d

(* ================================================================== *)
(* Properties of the router's quote                                    *)
(* ================================================================== *)
\* C27: the feeAmount and totalRepayment the estimate endpoint quotes, and
\* the fee the execute endpoint records, are the fee and total the pool
\* computes for the same amount, floor(amount * fee_rate / 10000), for
\* every pool fee rate; repaying exactly the quoted total is not refused as
\* insufficient.
C27_QuoteMatchesPool ==
    /\ \A r \in CallIds, p \in Created :
          (reqs[r].pc = "responded" /\ reqs[r].audited)
          => /\ reqs[r].feeAmount = calculate_flash_loan_cost(pools[p], reqs[r].amount)[1]
             /\ reqs[r].route = "estimate"
                => reqs[r].totalRepayment
                      = calculate_flash_loan_cost(pools[p], reqs[r].amount)[2]
    /\ last.op = "repay_flash_loan" => last.err # E_INSUFFICIENT_REPAYMENT

(* ================================================================== *)
(* Properties of the global counter and of the estimate                *)
(* ================================================================== *)
\* C29: each request increments the global counter of its origin exactly
\* once, whichever endpoint it targets.
C29_GlobalCountedOnce ==
    \A r \in CallIds :
        reqs[r].pc \in {"handler", "service", "responded"}
        => reqs[r].globalIncrements = 1

\* C30: estimateGasCost never returns a negative gasEstimate and never
\* reports isValid = true with a cost that is not positive, also when the
\* storage rebate of the dry run exceeds computation cost plus storage cost.
C30_EstimateNotNegative ==
    \A c \in CallIds :
        estimates[c].pc = "done"
        => /\ estimates[c].gasEstimate >= 0
           /\ estimates[c].isValid => estimates[c].gasEstimate > 0
====
